---- MODULE Spec2Model ----
(***************************************************************************)
(* Navigation and perception core of the roguelike tutorial: the recursive *)
(* shadow-casting field of view (src/src/fov.js), the A* path search       *)
(* (src/src/pathfinder.js) and the stage's occupancy index                 *)
(* (src/src/stage.js).                                                     *)
(***************************************************************************)
EXTENDS Integers, Sequences, FiniteSets, TLC

(***************************************************************************)
(* Bounds of the model.                                                    *)
(***************************************************************************)
FovWidth == 4
FovHeight == 4
MaxRadius == 4
MaxOpaque == 1
SearchWidth == 3
SearchHeight == 2
MaxWalls == 2
StageWidth == 3
StageHeight == 2
MaxMonsters == 1

VARIABLES
  width,       \* Stage.width
  height,      \* Stage.height
  map,         \* Stage.map: map[y][x] is a tile
  rooms,       \* the rooms of the dungeon the map was generated with
  entities,    \* Stage.entities: the entities on the stage, in insertion order
  entitiesMap, \* Stage.entitiesMap: entitiesMap[y][x] is the bucket of a cell
  ent,         \* the x and y fields of every entity object
  fovCall,     \* arguments of the call refresh(originX, originY, radius)
  fovLog,      \* the reveal and isOpaque calls of that refresh, in order
  heuristic,   \* the costHeuristic the pathfinder was created with
  origin,      \* search: the origin object
  target,      \* search: the target object
  frontier,    \* search: the priority queue, a set of [node, priority]
  costs,       \* search: the Map costs, keyed by index(point)
  visited,     \* search: the Map visited, keyed by index(point)
  spc,         \* search: "idle", "loop" (in the while loop) or "done"
  result,      \* search: what the call returned or threw
  visible,     \* Stage.visible: the keys revealed by the latest refresh
  seen,        \* Stage.seen: the keys revealed by any refresh
  action,      \* index.js: the pending action of the player, or NoAction
  playerTurn,  \* index.js: playerTurn
  turn,        \* update: position of the loop over stage.entities (0: not in it)
  crashed,     \* an uncaught exception has ended the game loop
  handled,     \* the number of actions update has handled so far
  health       \* the health field of the Fightable of every entity that has one

stageVars == <<width, height, map, rooms>>
indexVars == <<entities, entitiesMap, ent>>
fovVars == <<fovCall, fovLog>>
searchVars == <<heuristic, origin, target, frontier, costs, visited, spc, result>>
playVars == <<visible, seen, action, playerTurn, turn, crashed, handled, health>>
vars == <<stageVars, indexVars, fovVars, searchVars, playVars>>

(***************************************************************************)
(* tiles.js                                                                *)
(***************************************************************************)
Tile(type, blocking, opaque) ==
  [type |-> type, blocking |-> blocking, opaque |-> opaque]

TileOpen(type) == Tile(type, FALSE, FALSE)

TileBlocking(type) == Tile(type, TRUE, TRUE)

Tiles == [FLOOR |-> TileOpen("FLOOR"), WALL |-> TileBlocking("WALL")]

Cells(w, h) == (0 .. w - 1) \X (0 .. h - 1)

\* The map whose wall tiles are exactly the cells of walls (pairs <<x, y>>).
MapOf(w, h, walls) ==
  [y \in 0 .. h - 1 |->
    [x \in 0 .. w - 1 |-> IF <<x, y>> \in walls THEN Tiles.WALL ELSE Tiles.FLOOR]]

SubsetsUpTo(S, n) == {T \in SUBSET S : Cardinality(T) <= n}

WallCells == {c \in Cells(width, height) : map[c[2]][c[1]].opaque}

InBounds(x, y) == x >= 0 /\ y >= 0 /\ x < width /\ y < height

(***************************************************************************)
(* entity.js and the occupancy index of stage.js                           *)
(***************************************************************************)
\* The entity objects: 0 is the player, the others are monsters.
Player == 0

Entities == 0 .. MaxMonsters

defaultFlags == [blocking |-> TRUE]

\* Entity.isBlocking: every entity is built with the default flags.
isBlocking(e) == defaultFlags.blocking

SeqToSet(q) == {q[i] : i \in 1 .. Len(q)}

Without(q, entity) == SelectSeq(q, LAMBDA e : e # entity)

Count(q, entity) == Cardinality({i \in 1 .. Len(q) : q[i] = entity})

\* Array(height).fill(null).map(() => Array(width).fill(null).map(() => []))
EmptyBuckets(w, h) == [y \in 0 .. h - 1 |-> [x \in 0 .. w - 1 |-> << >>]]

\* Stage.entitiesAt
entitiesAt(x, y) == entitiesMap[y][x]

\* Stage.isUnoccupied
isUnoccupied(x, y) == ~ \E i \in 1 .. Len(entitiesMap[y][x]) : isBlocking(entitiesMap[y][x][i])

\* Mutant of canMoveTo: a wall can be walked through.
canMoveTo_ThroughWalls(x, y) == TRUE

\* Stage.canMoveTo
canMoveTo(x, y) == ~map[y][x].blocking

\* Stage.addEntity
addEntity(entity) ==
  /\ entities' = Append(entities, entity)
  /\ entitiesMap' = [entitiesMap EXCEPT ![ent'[entity].y][ent'[entity].x] = Append(@, entity)]

\* Mutant of moveEntityTo: the entity is not taken out of its old bucket.
moveEntityTo_KeepOld(entity, x, y) ==
  /\ ent' = [ent EXCEPT ![entity] = [x |-> x, y |-> y]]
  /\ entitiesMap' = [entitiesMap EXCEPT ![y][x] = Append(@, entity)]
  /\ UNCHANGED entities

\* Stage.moveEntityTo
moveEntityTo(entity, x, y) ==
  LET filtered == [entitiesMap EXCEPT ![ent[entity].y][ent[entity].x] = Without(@, entity)]
  IN /\ ent' = [ent EXCEPT ![entity] = [x |-> x, y |-> y]]
     /\ entitiesMap' = [filtered EXCEPT ![y][x] = Append(@, entity)]
     /\ UNCHANGED entities

\* Mutant of removeEntity: the entity is left in its bucket.
removeEntity_ListOnly(entity) ==
  /\ entities' = Without(entities, entity)
  /\ UNCHANGED <<entitiesMap, ent>>

\* Stage.removeEntity
removeEntity(entity) ==
  /\ entitiesMap' =
       [entitiesMap EXCEPT ![ent[entity].y][ent[entity].x] = Without(@, entity)]
  /\ entities' = Without(entities, entity)
  /\ UNCHANGED ent

Directions == [CARDINAL |-> <<[x |-> -1, y |-> 0], [x |-> 1, y |-> 0],
                              [x |-> 0, y |-> -1], [x |-> 0, y |-> 1]>>]

\* A coordinate object {x, y}.  ref tells the objects apart that the code
\* compares by reference: the origin object, the target object, any object
\* built by adjacentPoints, and the values null and undefined.
Point(x, y, ref) == [x |-> x, y |-> y, ref |-> ref]

Null == Point(0, 0, "null")

Undefined == Point(0, 0, "undefined")

\* a === b for two such values
SameObject(a, b) ==
  a.ref = b.ref /\ a.ref \in {"origin", "target", "null", "undefined"}

\* Stage.adjacentPoints
adjacentPoints(x, y) ==
  LET candidate(i) == Point(x + Directions.CARDINAL[i].x, y + Directions.CARDINAL[i].y, "node")
      inside(c) == c.x >= 0 /\ c.x < width /\ c.y >= 0 /\ c.y < height
      F[i \in 0 .. 4] ==
        IF i = 0 THEN << >>
        ELSE IF inside(candidate(i)) THEN Append(F[i - 1], candidate(i)) ELSE F[i - 1]
  IN F[4]

\* Mutant of movementCost: an occupied cell costs what an empty one costs.
movementCost_Flat(x, y) == 1

\* Stage.movementCost
movementCost(x, y) == IF isUnoccupied(x, y) THEN 1 ELSE 5

(***************************************************************************)
(* pathfinder.js, with the callbacks meleeCharge passes to createPathfinder*)
(***************************************************************************)
\* Priorities are kept in hundredths, so that 1.01 is the integer 101.
Hundredths == 100

Abs(n) == IF n < 0 THEN -n ELSE n

adjacentNodes(x, y) == adjacentPoints(x, y)

traversalCost(x, y) == movementCost(x, y)

isTraversable(x, y) == canMoveTo(x, y)

\* Mutant of costHeuristic: the estimate is three times the heuristic of
\* meleeCharge.
costHeuristic_Tripled(from, to) ==
  3 * (Hundredths * Abs(from.x - to.x) + 101 * Abs(from.y - to.y))

\* costHeuristic(from, to), in hundredths: Math.abs(from.x - to.x) +
\* Math.abs(from.y - to.y) * 1.01 as meleeCharge defines it, or the plain
\* Manhattan distance.
costHeuristic(from, to) ==
  IF heuristic = "meleeCharge"
  THEN Hundredths * Abs(from.x - to.x) + 101 * Abs(from.y - to.y)
  ELSE Hundredths * Abs(from.x - to.x) + Hundredths * Abs(from.y - to.y)

\* index(point): the key `${point.x},${point.y}`
index(point) == <<point.x, point.y>>

\* Map.has, Map.get and Map.set on a Map kept as a function of its keys.
Has(m, key) == key \in DOMAIN m

Get(m, key) == IF key \in DOMAIN m THEN m[key] ELSE Undefined

Set(m, key, value) == [k \in DOMAIN m \cup {key} |-> IF k = key THEN value ELSE m[k]]

EmptyMap == [k \in {} |-> 0]

Reverse(q) == [i \in 1 .. Len(q) |-> q[Len(q) + 1 - i]]

Returned(path) == [status |-> "returned", path |-> path]

\* index(current) on null or undefined throws a TypeError.
TypeError == [status |-> "TypeError", path |-> << >>]

\* The while loop never ends (the predecessor links form a cycle).
Diverges == [status |-> "diverges", path |-> << >>]

NoResult == [status |-> "none", path |-> << >>]

RECURSIVE TraceLoop(_, _, _, _)
\* The while loop of tracePath from current on; path is what was pushed.
TraceLoop(paths, from, current, path) ==
  IF SameObject(current, from) THEN Returned(Reverse(path))
  ELSE IF current.ref \in {"null", "undefined"} THEN TypeError
  ELSE IF Len(path) > Cardinality(DOMAIN paths) THEN Diverges
  ELSE TraceLoop(paths, from, Get(paths, index(current)), Append(path, current))

\* Mutant of tracePath: the path is not reversed.
tracePath_NoReverse(paths, from, to) ==
  LET r == TraceLoop(paths, from, to, << >>)
  IN [r EXCEPT !.path = Reverse(@)]

\* tracePath(paths, origin, target)
tracePath(paths, from, to) == TraceLoop(paths, from, to, << >>)

\* The entries frontier.poll() may return: those of least priority.
Pollable(queue) == {e \in queue : \A o \in queue : e.priority <= o.priority}

\* Mutant of Relaxes: a candidate is recorded whatever its earlier cost.
Relaxes_Always(st, candidate, costSum) == TRUE

\* The condition under which search records candidate at cost costSum.
Relaxes(st, candidate, costSum) ==
  ~Has(st.costs, index(candidate)) \/ costSum < st.costs[index(candidate)]

\* Mutant of Relax: the cost of the candidate is recorded without its
\* predecessor.
Relax_CostOnly(st, current, candidate) ==
  IF ~isTraversable(candidate.x, candidate.y) THEN st
  ELSE
    LET costSum == st.costs[index(current)] + traversalCost(candidate.x, candidate.y)
    IN IF Relaxes(st, candidate, costSum)
       THEN [costs |-> Set(st.costs, index(candidate), costSum),
             visited |-> st.visited,
             frontier |-> st.frontier \cup
               {[node |-> candidate,
                 priority |-> Hundredths * costSum + costHeuristic(target, candidate)]}]
       ELSE st

\* The body of the for loop of search for one candidate; st holds frontier,
\* costs and visited.
Relax(st, current, candidate) ==
  IF ~isTraversable(candidate.x, candidate.y) THEN st
  ELSE
    LET costSum == st.costs[index(current)] + traversalCost(candidate.x, candidate.y)
    IN IF Relaxes(st, candidate, costSum)
       THEN [costs |-> Set(st.costs, index(candidate), costSum),
             visited |-> Set(st.visited, index(candidate), current),
             frontier |-> st.frontier \cup
               {[node |-> candidate,
                 priority |-> Hundredths * costSum + costHeuristic(target, candidate)]}]
       ELSE st

\* The for loop of search over the candidates, in order.
RelaxAll(st, current, candidates) ==
  LET F[i \in 0 .. Len(candidates)] ==
        IF i = 0 THEN st ELSE Relax(F[i - 1], current, candidates[i])
  IN F[Len(candidates)]

AtTarget(current) == current.x = target.x /\ current.y = target.y

\* search(origin, target) is called: the queue and the maps are set up.
\* sameObject: the caller passes one object as origin and as target.
SearchCall ==
  /\ spc = "idle"
  /\ \E o \in Cells(width, height), t \in Cells(width, height), sameObject \in BOOLEAN :
       /\ sameObject => o = t
       /\ origin' = Point(o[1], o[2], "origin")
       /\ target' = Point(t[1], t[2], IF sameObject THEN "origin" ELSE "target")
       /\ frontier' = {[node |-> origin', priority |-> 0]}
       /\ costs' = Set(EmptyMap, index(origin'), 0)
       /\ visited' = Set(EmptyMap, index(origin'), Null)
  /\ spc' = "loop"
  /\ UNCHANGED <<stageVars, indexVars, fovVars, heuristic, result, playVars>>

\* One pass of the while loop that polls a coordinate other than the target.
SearchExpand ==
  /\ spc = "loop"
  /\ \E e \in Pollable(frontier) :
       /\ ~AtTarget(e.node)
       /\ LET st == RelaxAll([frontier |-> frontier \ {e}, costs |-> costs, visited |-> visited],
                             e.node, adjacentNodes(e.node.x, e.node.y))
          IN /\ frontier' = st.frontier
             /\ costs' = st.costs
             /\ visited' = st.visited
  /\ UNCHANGED <<stageVars, indexVars, fovVars, heuristic, origin, target, spc, result, playVars>>

\* Mutant of SearchReturn: the search itself takes the first step of the
\* path with the entity that stands on the origin.
SearchReturn_TakesStep ==
  /\ spc = "loop"
  /\ \/ /\ frontier = {}
        /\ UNCHANGED frontier
     \/ \E e \in Pollable(frontier) :
          /\ AtTarget(e.node)
          /\ frontier' = frontier \ {e}
  /\ result' = tracePath(visited, origin, target)
  /\ spc' = "done"
  /\ IF result'.status = "returned" /\ result'.path # << >>
        /\ entitiesAt(origin.x, origin.y) # << >>
     THEN moveEntityTo(entitiesAt(origin.x, origin.y)[1], result'.path[1].x, result'.path[1].y)
     ELSE UNCHANGED indexVars
  /\ UNCHANGED <<stageVars, fovVars, heuristic, origin, target, costs, visited, playVars>>

\* The loop ends, by polling the target or on an empty queue, and search
\* returns tracePath(visited, origin, target).
SearchReturn ==
  /\ spc = "loop"
  /\ \/ /\ frontier = {}
        /\ UNCHANGED frontier
     \/ \E e \in Pollable(frontier) :
          /\ AtTarget(e.node)
          /\ frontier' = frontier \ {e}
  /\ result' = tracePath(visited, origin, target)
  /\ spc' = "done"
  /\ UNCHANGED <<stageVars, indexVars, fovVars, heuristic, origin, target, costs, visited, playVars>>

(***************************************************************************)
(* fov.js                                                                  *)
(***************************************************************************)
octantTransforms == <<
  [xx |-> 1, xy |-> 0, yx |-> 0, yy |-> 1],
  [xx |-> 1, xy |-> 0, yx |-> 0, yy |-> -1],
  [xx |-> -1, xy |-> 0, yx |-> 0, yy |-> 1],
  [xx |-> -1, xy |-> 0, yx |-> 0, yy |-> -1],
  [xx |-> 0, xy |-> 1, yx |-> 1, yy |-> 0],
  [xx |-> 0, xy |-> 1, yx |-> -1, yy |-> 0],
  [xx |-> 0, xy |-> -1, yx |-> 1, yy |-> 0],
  [xx |-> 0, xy |-> -1, yx |-> -1, yy |-> 0] >>

\* A slope is the exact quotient n / d, kept as <<n, d>> with d > 0.  The
\* operands of every division in castShadows are half-integers, so the
\* floating-point quotients compare as the exact ones do.
Frac(n, d) == IF d < 0 THEN <<-n, -d>> ELSE <<n, d>>

SlopeLess(a, b) == a[1] * b[2] < b[1] * a[2]

\* (deltaX - 0.5) / (deltaY + 0.5)
LeftSlope(deltaX, deltaY) == Frac(2 * deltaX - 1, 2 * deltaY + 1)

\* (deltaX + 0.5) / (deltaY - 0.5)
RightSlope(deltaX, deltaY) == Frac(2 * deltaX + 1, 2 * deltaY - 1)

\* Stage.isOpaque: map[y][x].opaque, with no test of the bounds: outside the
\* grid there is no tile to read and the lookup fails, as the TypeError of
\* the code does.
isOpaque(x, y) == map[y][x].opaque

RevealCall(x, y) == [op |-> "reveal", x |-> x, y |-> y]

OpaqueCall(x, y) == [op |-> "isOpaque", x |-> x, y |-> y]

\* Mutant of WithinRadius: the distance cutoff left out.
WithinRadius_NoCutoff(deltaX, deltaY, radius) == TRUE

\* Math.sqrt(deltaX * deltaX + deltaY * deltaY) <= radius, radius an integer
WithinRadius(deltaX, deltaY, radius) ==
  radius >= 0 /\ deltaX * deltaX + deltaY * deltaY <= radius * radius

\* The bounds test of castShadows on the current cell.
CellInGrid(currentX, currentY) ==
  currentX >= 0 /\ currentY >= 0 /\ currentX < width /\ currentY < height

\* Mutant of RowContinues: a blocked row does not end the scan.
RowContinues_IgnoreBlocked(distance, radius, blocked) == distance < radius

\* The condition of the row loop of castShadows.
RowContinues(distance, radius, blocked) == distance < radius /\ ~blocked

RECURSIVE castShadows(_, _, _, _, _, _, _)
RECURSIVE ScanRows(_, _, _, _, _, _, _)
RECURSIVE ScanCells(_, _, _, _, _, _, _, _)

\* Mutant of ScanCells: reveal is called before the bounds test, so that a
\* cell the test skips has been revealed.
ScanCells_RevealFirst(originX, originY, distance, deltaX, end, transform, radius, st) ==
  IF deltaX > 0 THEN st
  ELSE
    LET deltaY == -distance
        currentX == originX + deltaX * transform.xx + deltaY * transform.xy
        currentY == originY + deltaX * transform.yx + deltaY * transform.yy
        leftSlope == LeftSlope(deltaX, deltaY)
        rightSlope == RightSlope(deltaX, deltaY)
        log1 == IF WithinRadius(deltaX, deltaY, radius)
                THEN Append(st.log, RevealCall(currentX, currentY))
                ELSE st.log
        log2 == Append(log1, OpaqueCall(currentX, currentY))
    IN
    IF ~CellInGrid(currentX, currentY) \/ SlopeLess(st.start, rightSlope)
    THEN ScanCells(originX, originY, distance, deltaX + 1, end, transform, radius,
           [st EXCEPT !.log = log1])
    ELSE IF SlopeLess(leftSlope, end)
    THEN st
    ELSE IF st.blocked
    THEN IF isOpaque(currentX, currentY)
         THEN ScanCells(originX, originY, distance, deltaX + 1, end, transform, radius,
                [st EXCEPT !.newStart = rightSlope, !.log = log2])
         ELSE ScanCells(originX, originY, distance, deltaX + 1, end, transform, radius,
                [st EXCEPT !.blocked = FALSE, !.start = st.newStart, !.log = log2])
    ELSE IF isOpaque(currentX, currentY) /\ distance < radius
         THEN ScanCells(originX, originY, distance, deltaX + 1, end, transform, radius,
                [st EXCEPT !.blocked = TRUE, !.newStart = rightSlope,
                   !.log = log2 \o castShadows(originX, originY, distance + 1,
                                               st.start, leftSlope, transform, radius)])
         ELSE ScanCells(originX, originY, distance, deltaX + 1, end, transform, radius,
                [st EXCEPT !.log = log2])

\* The inner loop of castShadows from deltaX on, in row distance.  st holds
\* the locals start, newStart, blocked and the calls made so far (log).
ScanCells(originX, originY, distance, deltaX, end, transform, radius, st) ==
  IF deltaX > 0 THEN st
  ELSE
    LET deltaY == -distance
        currentX == originX + deltaX * transform.xx + deltaY * transform.xy
        currentY == originY + deltaX * transform.yx + deltaY * transform.yy
        leftSlope == LeftSlope(deltaX, deltaY)
        rightSlope == RightSlope(deltaX, deltaY)
        log1 == IF WithinRadius(deltaX, deltaY, radius)
                THEN Append(st.log, RevealCall(currentX, currentY))
                ELSE st.log
        log2 == Append(log1, OpaqueCall(currentX, currentY))
    IN
    IF ~CellInGrid(currentX, currentY) \/ SlopeLess(st.start, rightSlope)
    THEN ScanCells(originX, originY, distance, deltaX + 1, end, transform, radius, st)
    ELSE IF SlopeLess(leftSlope, end)
    THEN st
    ELSE IF st.blocked
    THEN IF isOpaque(currentX, currentY)
         THEN ScanCells(originX, originY, distance, deltaX + 1, end, transform, radius,
                [st EXCEPT !.newStart = rightSlope, !.log = log2])
         ELSE ScanCells(originX, originY, distance, deltaX + 1, end, transform, radius,
                [st EXCEPT !.blocked = FALSE, !.start = st.newStart, !.log = log2])
    ELSE IF isOpaque(currentX, currentY) /\ distance < radius
         THEN ScanCells(originX, originY, distance, deltaX + 1, end, transform, radius,
                [st EXCEPT !.blocked = TRUE, !.newStart = rightSlope,
                   !.log = log2 \o castShadows(originX, originY, distance + 1,
                                               st.start, leftSlope, transform, radius)])
         ELSE ScanCells(originX, originY, distance, deltaX + 1, end, transform, radius,
                [st EXCEPT !.log = log2])

\* The outer loop of castShadows from row distance on.
ScanRows(originX, originY, distance, end, transform, radius, st) ==
  IF RowContinues(distance, radius, st.blocked)
  THEN ScanRows(originX, originY, distance + 1, end, transform, radius,
         ScanCells(originX, originY, distance, -distance, end, transform, radius, st))
  ELSE st

\* castShadows: the sequence of reveal and isOpaque calls it makes.
castShadows(originX, originY, row, start, end, transform, radius) ==
  IF SlopeLess(start, end) THEN << >>
  ELSE ScanRows(originX, originY, row, end, transform, radius,
         [start |-> start, newStart |-> <<0, 1>>, blocked |-> FALSE, log |-> << >>]).log

RECURSIVE CastOctants(_, _, _, _)
CastOctants(originX, originY, radius, i) ==
  IF i > Len(octantTransforms) THEN << >>
  ELSE castShadows(originX, originY, 1, <<1, 1>>, <<0, 1>>, octantTransforms[i], radius)
       \o CastOctants(originX, originY, radius, i + 1)

\* refresh: the sequence of reveal and isOpaque calls of one refresh.
refresh(originX, originY, radius) ==
  <<RevealCall(originX, originY)>> \o CastOctants(originX, originY, radius, 1)

\* One call of refresh(originX, originY, radius) with the arguments drawn in
\* the initial state.
FovRefresh ==
  /\ fovLog = << >>
  /\ fovLog' = refresh(fovCall.originX, fovCall.originY, fovCall.radius)
  /\ UNCHANGED <<stageVars, indexVars, fovCall, searchVars, playVars>>

\* No entity on the stage (initializeEntities before the first addEntity).
NoEntities(w, h) ==
  /\ entities = << >>
  /\ entitiesMap = EmptyBuckets(w, h)
  /\ ent = [e \in Entities |-> [x |-> 0, y |-> 0]]

\* No search under way.
SearchIdle ==
  /\ origin = Null
  /\ target = Null
  /\ frontier = {}
  /\ costs = EmptyMap
  /\ visited = EmptyMap
  /\ spc = "idle"
  /\ result = NoResult

NoAction == [x |-> 0, y |-> 0]

\* The game loop has not handled anything: no key pressed, the player to act.
PlayIdle ==
  /\ visible = {}
  /\ seen = {}
  /\ action = NoAction
  /\ playerTurn = TRUE
  /\ turn = 0
  /\ crashed = FALSE
  /\ handled = 0
  /\ health = << >>

\* No refresh under way.
FovIdle ==
  /\ fovCall = [originX |-> 0, originY |-> 0, radius |-> 0]
  /\ fovLog = << >>

InitFOV ==
  /\ NoEntities(FovWidth, FovHeight)
  /\ SearchIdle
  /\ heuristic = "manhattan"
  /\ width = FovWidth
  /\ height = FovHeight
  /\ map \in {MapOf(FovWidth, FovHeight, walls) :
                walls \in SubsetsUpTo(Cells(FovWidth, FovHeight), MaxOpaque)}
  /\ rooms = << >>
  /\ fovCall \in [originX : 0 .. FovWidth - 1, originY : 0 .. FovHeight - 1,
                   radius : 0 .. MaxRadius]
  /\ fovLog = << >>
  /\ PlayIdle

NextFOV == FovRefresh

SpecFOV == InitFOV /\ [][NextFOV]_vars

InitSearch ==
  /\ width = SearchWidth
  /\ height = SearchHeight
  /\ map \in {MapOf(SearchWidth, SearchHeight, walls) :
                walls \in SubsetsUpTo(Cells(SearchWidth, SearchHeight), MaxWalls)}
  /\ rooms = << >>
  /\ NoEntities(SearchWidth, SearchHeight)
  /\ FovIdle
  /\ heuristic \in {"manhattan", "meleeCharge"}
  /\ SearchIdle
  /\ PlayIdle

NextSearch == SearchCall \/ SearchExpand \/ SearchReturn

SpecSearch == InitSearch /\ [][NextSearch]_vars

\* initializeEntities adds a newly built entity, placed at (x, y).
AddEntity ==
  /\ \E e \in Entities \ SeqToSet(entities), c \in Cells(width, height) :
       /\ ent' = [ent EXCEPT ![e] = [x |-> c[1], y |-> c[2]]]
       /\ addEntity(e)
  /\ UNCHANGED <<stageVars, fovVars, searchVars, playVars>>

\* A caller moves an entity of the stage to a cell of the grid.
MoveEntityTo ==
  /\ \E e \in SeqToSet(entities), c \in Cells(width, height) : moveEntityTo(e, c[1], c[2])
  /\ UNCHANGED <<stageVars, fovVars, searchVars, playVars>>

\* A caller takes an entity off the stage.
RemoveEntity ==
  /\ \E e \in SeqToSet(entities) : removeEntity(e)
  /\ UNCHANGED <<stageVars, fovVars, searchVars, playVars>>

InitStage ==
  /\ width = StageWidth
  /\ height = StageHeight
  /\ map = MapOf(StageWidth, StageHeight, {})
  /\ rooms = << >>
  /\ NoEntities(StageWidth, StageHeight)
  /\ FovIdle
  /\ heuristic = "manhattan"
  /\ SearchIdle
  /\ PlayIdle

NextStage == AddEntity \/ MoveEntityTo \/ RemoveEntity

SpecStage == InitStage /\ [][NextStage]_vars

(***************************************************************************)
(* dungeon.js                                                              *)
(***************************************************************************)
PlayWidth == 16
PlayHeight == 6
RoomSize == 4
MaxActions == 4

\* The configuration generateDungeon is called with: rooms of one size.  No
\* more than three rooms of RoomSize fit on a PlayWidth x PlayHeight grid
\* without intersecting, so three draws yield every dungeon that the thirty
\* draws of defaultConfig yield.
playConfig == [maxRoomCount |-> 3, minRoomSize |-> RoomSize, maxRoomSize |-> RoomSize]

Min(a, b) == IF a < b THEN a ELSE b

Max(a, b) == IF a > b THEN a ELSE b

\* new Rect(x, y, width, height)
Rect(x, y, w, h) == [x1 |-> x, y1 |-> y, x2 |-> x + w, y2 |-> y + h]

\* Rect.forEach: the cells the callback is called with.
RectForEach(rect) ==
  {<<x, y>> : x \in rect.x1 + 1 .. rect.x2 - 2, y \in rect.y1 + 1 .. rect.y2 - 2}

\* Rect.intersects
intersects(this, rect) ==
  this.x1 <= rect.x2 /\ this.x2 >= rect.x1 /\ this.y1 <= rect.y2 /\ this.y2 >= rect.y1

\* Math.round(n / 2) for an integer n >= 0: halves round up.
RoundHalf(n) == (n + 1) \div 2

\* Rect.center
center(rect) ==
  [x |-> RoundHalf(rect.x1 + rect.x2), y |-> RoundHalf(rect.y1 + rect.y2)]

\* tiles with the cells of S set to Tiles.FLOOR
Dig(tiles, S) ==
  [y \in DOMAIN tiles |->
    [x \in DOMAIN tiles[y] |-> IF <<x, y>> \in S THEN Tiles.FLOOR ELSE tiles[y][x]]]

digHorizontalPassage(tiles, x1, x2, y) ==
  Dig(tiles, {<<x, y>> : x \in Min(x1, x2) .. Max(x1, x2)})

digVerticalPassage(tiles, y1, y2, x) ==
  Dig(tiles, {<<x, y>> : y \in Min(y1, y2) .. Max(y1, y2)})

\* The rectangles one pass of the room loop can draw: rng.integer(min, max)
\* yields any integer from min to max.
Candidates(w, h, config) ==
  {Rect(x, y, rw, rh) :
     <<x, y, rw, rh>> \in
       {q \in (1 .. w) \X (1 .. h) \X (config.minRoomSize .. config.maxRoomSize)
                \X (config.minRoomSize .. config.maxRoomSize) :
          q[1] <= w - q[3] - 1 /\ q[2] <= h - q[4] - 1}}

\* The room loop of generateDungeon: a candidate is kept unless it
\* intersects a room kept before.
AcceptRooms(candidates) ==
  LET F[i \in 0 .. Len(candidates)] ==
        IF i = 0 THEN << >>
        ELSE IF \E r \in 1 .. Len(F[i - 1]) : intersects(F[i - 1][r], candidates[i])
             THEN F[i - 1]
             ELSE Append(F[i - 1], candidates[i])
  IN F[Len(candidates)]

\* Mutant of Carve: the horizontal passages are not dug.
Carve_NoHorizontal(w, h, accepted, coin) ==
  LET walls == [y \in 0 .. h - 1 |-> [x \in 0 .. w - 1 |-> Tiles.WALL]]
      F[i \in 0 .. Len(accepted)] ==
        IF i = 0 THEN walls
        ELSE LET dug == Dig(F[i - 1], RectForEach(accepted[i]))
                 prev == center(accepted[i - 1])
                 curr == center(accepted[i])
             IN IF i = 1 THEN dug
                ELSE IF coin[i]
                THEN digVerticalPassage(dug, prev.y, curr.y, prev.x)
                ELSE digVerticalPassage(dug, prev.y, curr.y, curr.x)
  IN F[Len(accepted)]

\* The loop of generateDungeon over the rooms: each room is dug out and
\* joined to the room before it; coin[i] is the rng.boolean() of room i.
Carve(w, h, accepted, coin) ==
  LET walls == [y \in 0 .. h - 1 |-> [x \in 0 .. w - 1 |-> Tiles.WALL]]
      F[i \in 0 .. Len(accepted)] ==
        IF i = 0 THEN walls
        ELSE LET dug == Dig(F[i - 1], RectForEach(accepted[i]))
                 prev == center(accepted[i - 1])
                 curr == center(accepted[i])
             IN IF i = 1 THEN dug
                ELSE IF coin[i]
                THEN digVerticalPassage(
                       digHorizontalPassage(dug, prev.x, curr.x, curr.y),
                       prev.y, curr.y, prev.x)
                ELSE digHorizontalPassage(
                       digVerticalPassage(dug, prev.y, curr.y, curr.x),
                       prev.x, curr.x, prev.y)
  IN F[Len(accepted)]

\* generateDungeon(width, height, configuration), given what the random
\* generator yields: the candidate rectangles and the coin of every room.
generateDungeon(w, h, candidates, coin) ==
  LET accepted == AcceptRooms(candidates)
  IN [rooms |-> accepted, tiles |-> Carve(w, h, accepted, coin), start |-> center(accepted[1])]

\* The dungeons generateDungeon(w, h, config) can return.
Dungeons(w, h, config) ==
  UNION {
    LET accepted == AcceptRooms(candidates)
    IN {generateDungeon(w, h, candidates, coin) : coin \in [1 .. Len(accepted) -> BOOLEAN]}
    : candidates \in [1 .. config.maxRoomCount -> Candidates(w, h, config)]}

(***************************************************************************)
(* fightable.js, entity.js: melee                                          *)
(***************************************************************************)
\* Entity.isFightable: the entity was constructed with a fightable
\* component, as the player and the monsters of spawnMonster are.
isFightable(e) == e \in DOMAIN health

\* The arguments of new Fightable(health, attack, defence): of the player
\* and of spawnMonster.
Fightable(e) ==
  IF e = Player THEN [health |-> 30, attack |-> 10, defence |-> 10]
  ELSE [health |-> 20, attack |-> 0, defence |-> 0]

\* Fightable.dealDamage with its draw rng.integer(1, 6)
dealDamage(t, damage) == health' = [health EXCEPT ![t] = @ - damage]

\* Fightable.meleeAttack(target): attackRoll against defensiveScore, over
\* every draw of rng.integer(1, 100).
meleeAttack(a, t) ==
  \E roll \in 1 .. 100 :
    LET attackRoll == Fightable(a).attack + roll
        defensiveScore == Fightable(t).defence + 50
    IN IF attackRoll > defensiveScore
       THEN \E damage \in 1 .. 6 : dealDamage(t, damage)
       ELSE UNCHANGED health

\* Entity.bump(target)
bump(a, t) == IF isFightable(t) THEN meleeAttack(a, t) ELSE UNCHANGED health

\* The occupant the loop of handleAction bumps: the first blocking one.
FirstBlocking(occupants) ==
  occupants[CHOOSE i \in 1 .. Len(occupants) :
              /\ isBlocking(occupants[i])
              /\ \A j \in 1 .. i - 1 : ~isBlocking(occupants[j])]

(***************************************************************************)
(* stage.js: construction and visibility                                   *)
(***************************************************************************)
\* Mutant of revealTile: the cell is added to the visible set only.
revealTile_VisibleOnly(vs, x, y) ==
  [visible |-> vs.visible \cup {<<x, y>>}, seen |-> vs.seen]

\* Stage.revealTile on the two sets, kept as [visible, seen]
revealTile(vs, x, y) ==
  [visible |-> vs.visible \cup {<<x, y>>}, seen |-> vs.seen \cup {<<x, y>>}]

\* The reveal callbacks of the calls in log applied to the two sets: every
\* call adds its key to both, so the order of the calls does not matter.
RevealAll(vs, log) ==
  LET none == [visible |-> {}, seen |-> {}]
      calls == {i \in 1 .. Len(log) : log[i].op = "reveal"}
  IN [visible |-> vs.visible \cup
                    UNION {revealTile(none, log[i].x, log[i].y).visible : i \in calls},
      seen |-> vs.seen \cup
                 UNION {revealTile(none, log[i].x, log[i].y).seen : i \in calls}]

\* Mutant of refreshVisibility: the visible set is not cleared.
refreshVisibility_NoClear(vs, log) == RevealAll(vs, log)

\* Mutant of refreshVisibility: the seen set is cleared too.
refreshVisibility_ClearBoth(vs, log) == RevealAll([visible |-> {}, seen |-> {}], log)

\* Stage.refreshVisibility, log being the calls of
\* refreshFOV(player.x, player.y, 16)
refreshVisibility(vs, log) == RevealAll([vs EXCEPT !.visible = {}], log)

\* Stage.initializeVisibility
initializeVisibility(log) == refreshVisibility([visible |-> {}, seen |-> {}], log)

\* The rooms initializeEntities spawns a monster in: spawn[r] is false when
\* Math.random() > 0.6 skips room r.
SpawnRooms(accepted, spawn) ==
  LET F[r \in 1 .. Len(accepted)] ==
        IF r = 1 THEN << >>
        ELSE IF spawn[r] THEN Append(F[r - 1], accepted[r]) ELSE F[r - 1]
  IN F[Len(accepted)]

\* Stage.initializeEntities: the player at the centre of the first room, then
\* a monster at the centre of every spawn room.
initializeEntities(w, h, accepted, spawn) ==
  LET spawned == SpawnRooms(accepted, spawn)
      at == [e \in 0 .. Len(spawned) |->
               IF e = Player THEN center(accepted[1]) ELSE center(spawned[e])]
      list == [i \in 1 .. Len(spawned) + 1 |-> i - 1]
  IN [entities |-> list,
      ent |-> at,
      entitiesMap |->
        [y \in 0 .. h - 1 |->
          [x \in 0 .. w - 1 |-> SelectSeq(list, LAMBDA e : at[e] = [x |-> x, y |-> y])]]]

\* new Stage(width, height, player) after generateDungeon has returned the
\* map and the rooms: initializeEntities and initializeVisibility.  The
\* stage does not keep the rooms.
NewStage ==
  /\ entities = << >>
  /\ \E spawn \in [1 .. Len(rooms) -> BOOLEAN] :
       LET i == initializeEntities(width, height, rooms, spawn)
       IN /\ entities' = i.entities
          /\ entitiesMap' = i.entitiesMap
          /\ ent' = i.ent
          /\ fovCall' = [originX |-> i.ent[Player].x, originY |-> i.ent[Player].y,
                         radius |-> 16]
          /\ LET log == refresh(i.ent[Player].x, i.ent[Player].y, 16)
                 vs == initializeVisibility(log)
             IN fovLog' = log /\ visible' = vs.visible /\ seen' = vs.seen
          /\ health' = [e \in SeqToSet(i.entities) |-> Fightable(e).health]
  /\ rooms' = << >>
  /\ UNCHANGED <<width, height, map, searchVars, action, playerTurn, turn, crashed, handled>>

(***************************************************************************)
(* index.js, volition.js, behavior.js: the game loop                       *)
(***************************************************************************)
\* input(key): the action of an arrow key
KeyAction ==
  [ArrowUp |-> [x |-> 0, y |-> -1], ArrowDown |-> [x |-> 0, y |-> 1],
   ArrowLeft |-> [x |-> -1, y |-> 0], ArrowRight |-> [x |-> 1, y |-> 0]]

\* Stage.isVisible
isVisible(x, y) == <<x, y>> \in visible

\* Entity.hasVolition: spawnMonster gives every monster a Volition.
hasVolition(e) == e # Player

\* The uncaught exception of a frame: update never runs again.
Crash ==
  /\ crashed' = TRUE
  /\ UNCHANGED <<stageVars, indexVars, fovVars, heuristic, visible, seen, action,
                 playerTurn, turn, handled, health>>

\* The loop of update over stage.entities moves on, and ends after the last
\* entity with playerTurn = true.
NextEntity ==
  IF turn = Len(entities)
  THEN turn' = 0 /\ playerTurn' = TRUE
  ELSE turn' = turn + 1 /\ UNCHANGED playerTurn

\* A keydown event: between two frames, or at any time after the frame
\* whose exception ended the game loop (the listener stays registered).
\* No key is pressed once n actions were handled.
InputUpTo(n) ==
  /\ entities # << >>
  /\ turn = 0 \/ crashed
  /\ handled < n
  /\ \E key \in DOMAIN KeyAction : action' = KeyAction[key]
  /\ UNCHANGED <<stageVars, indexVars, fovVars, searchVars, visible, seen,
                 playerTurn, turn, crashed, handled, health>>

Input == InputUpTo(MaxActions)

\* Mutant of handleAction: the tile is not tested with canMoveTo.
handleAction_IgnoresWalls(a) ==
  LET mx == ent[Player].x + a.x
      my == ent[Player].y + a.y
      occupants == entitiesAt(mx, my)
  IN IF \E i \in 1 .. Len(occupants) : isBlocking(occupants[i])
     THEN /\ bump(Player, FirstBlocking(occupants))
          /\ UNCHANGED <<indexVars, fovVars, visible, seen>>
     ELSE /\ moveEntityTo(Player, mx, my)
          /\ fovCall' = [originX |-> mx, originY |-> my, radius |-> 16]
          /\ LET log == refresh(mx, my, 16)
                 vs == refreshVisibility([visible |-> visible, seen |-> seen], log)
             IN fovLog' = log /\ visible' = vs.visible /\ seen' = vs.seen
          /\ UNCHANGED health

\* Mutant of handleAction: the player moves without a refresh of the
\* visible set.
handleAction_NoRefresh(a) ==
  LET mx == ent[Player].x + a.x
      my == ent[Player].y + a.y
      occupants == entitiesAt(mx, my)
  IN IF canMoveTo(mx, my)
     THEN IF \E i \in 1 .. Len(occupants) : isBlocking(occupants[i])
          THEN /\ bump(Player, FirstBlocking(occupants))
               /\ UNCHANGED <<indexVars, fovVars, visible, seen>>
          ELSE /\ moveEntityTo(Player, mx, my)
               /\ UNCHANGED <<fovVars, visible, seen, health>>
     ELSE UNCHANGED <<indexVars, fovVars, visible, seen, health>>

\* handleAction(action): the player moves, bumps the first blocking occupant
\* of the tile or stays in front of a blocking tile.
handleAction(a) ==
  LET mx == ent[Player].x + a.x
      my == ent[Player].y + a.y
      occupants == entitiesAt(mx, my)
  IN IF canMoveTo(mx, my)
     THEN IF \E i \in 1 .. Len(occupants) : isBlocking(occupants[i])
          THEN /\ bump(Player, FirstBlocking(occupants))
               /\ UNCHANGED <<indexVars, fovVars, visible, seen>>
          ELSE /\ moveEntityTo(Player, mx, my)
               /\ fovCall' = [originX |-> mx, originY |-> my, radius |-> 16]
               /\ LET log == refresh(mx, my, 16)
                      vs == refreshVisibility([visible |-> visible, seen |-> seen], log)
                  IN fovLog' = log /\ visible' = vs.visible /\ seen' = vs.seen
               /\ UNCHANGED health
     ELSE UNCHANGED <<indexVars, fovVars, visible, seen, health>>

\* Mutant of UpdatePlayer: the action is not reset to null.
UpdatePlayer_KeepsAction ==
  /\ ~crashed
  /\ entities # << >>
  /\ turn = 0
  /\ action # NoAction
  /\ playerTurn
  /\ handled < MaxActions
  /\ handleAction(action)
  /\ playerTurn' = FALSE
  /\ turn' = 1
  /\ handled' = handled + 1
  /\ UNCHANGED <<stageVars, searchVars, crashed, action>>

\* update, first part: the pending action is handled and the loop over the
\* entities begins.  No more than n actions are handled.
UpdatePlayerUpTo(n) ==
  /\ ~crashed
  /\ entities # << >>
  /\ turn = 0
  /\ action # NoAction
  /\ playerTurn
  /\ handled < n
  /\ handleAction(action)
  /\ action' = NoAction
  /\ playerTurn' = FALSE
  /\ turn' = 1
  /\ handled' = handled + 1
  /\ UNCHANGED <<stageVars, searchVars, crashed>>

UpdatePlayer == UpdatePlayerUpTo(MaxActions)

\* The tiles drunkenWalk can move entity e to: each of its four draws is
\* any direction, and the first draw whose tile is free decides.
DrunkenSteps(e) ==
  {d \in 1 .. 4 :
     /\ canMoveTo(ent[e].x + Directions.CARDINAL[d].x, ent[e].y + Directions.CARDINAL[d].y)
     /\ isUnoccupied(ent[e].x + Directions.CARDINAL[d].x, ent[e].y + Directions.CARDINAL[d].y)}

\* Mutant of drunkenWalk: the tile is not tested for an occupant.
drunkenWalk_NoOccupancyTest(e) ==
  \E d \in 1 .. 4 :
    /\ canMoveTo(ent[e].x + Directions.CARDINAL[d].x, ent[e].y + Directions.CARDINAL[d].y)
    /\ moveEntityTo(e, ent[e].x + Directions.CARDINAL[d].x, ent[e].y + Directions.CARDINAL[d].y)

\* drunkenWalk(entity, stage)
drunkenWalk(e) ==
  \/ \E d \in DrunkenSteps(e) :
       moveEntityTo(e, ent[e].x + Directions.CARDINAL[d].x, ent[e].y + Directions.CARDINAL[d].y)
  \/ /\ DrunkenSteps(e) # 1 .. 4
     /\ UNCHANGED indexVars

\* update, one pass of the loop over stage.entities as part 6 of the
\* tutorial has it (entity.hasVolition(), entity.takeTurn(stage)): an entity
\* with volition takes its turn (Volition.takeTurn).  A visible one charges, which begins
\* with the call of search; any other one walks.
UpdateEntity ==
  /\ ~crashed
  /\ turn >= 1
  /\ spc = "idle"
  /\ LET e == entities[turn]
     IN IF ~hasVolition(e)
        THEN NextEntity /\ UNCHANGED <<indexVars, searchVars>>
        ELSE IF isVisible(ent[e].x, ent[e].y)
        THEN /\ origin' = Point(ent[e].x, ent[e].y, "origin")
             /\ target' = Point(ent[Player].x, ent[Player].y, "target")
             /\ frontier' = {[node |-> origin', priority |-> 0]}
             /\ costs' = Set(EmptyMap, index(origin'), 0)
             /\ visited' = Set(EmptyMap, index(origin'), Null)
             /\ spc' = "loop"
             /\ UNCHANGED <<indexVars, heuristic, result, playerTurn, turn>>
        ELSE drunkenWalk(e) /\ NextEntity /\ UNCHANGED searchVars
  /\ UNCHANGED <<stageVars, fovVars, visible, seen, action, crashed, handled, health>>

\* The search variables after the call has returned.
SearchOver ==
  /\ origin' = Null
  /\ target' = Null
  /\ frontier' = {}
  /\ costs' = EmptyMap
  /\ visited' = EmptyMap
  /\ spc' = "idle"
  /\ result' = NoResult
  /\ UNCHANGED heuristic

RECURSIVE SearchLoop(_)
\* The while loop of search run to its end from st (frontier, costs and
\* visited): what search can return or throw, over every order in which
\* frontier.poll() can break ties.
SearchLoop(st) ==
  IF st.frontier = {} THEN {tracePath(st.visited, origin, target)}
  ELSE UNION {
    IF AtTarget(e.node) THEN {tracePath(st.visited, origin, target)}
    ELSE SearchLoop(RelaxAll([st EXCEPT !.frontier = @ \ {e}], e.node,
                             adjacentNodes(e.node.x, e.node.y)))
    : e \in Pollable(st.frontier)}

\* meleeCharge from the loop of search on: search returns path, the entity
\* steps onto the first tile of the path if it is unoccupied, and bumps the
\* target otherwise.  The frame
\* ends with a TypeError when search threw, when the path is empty (next is
\* undefined) and when the occupant is not the target (bump is called with
\* undefined).
MeleeCharge ==
  /\ ~crashed
  /\ turn >= 1
  /\ spc = "loop"
  /\ SearchOver
  /\ \E r \in SearchLoop([frontier |-> frontier, costs |-> costs, visited |-> visited]) :
       LET e == entities[turn]
           path == r.path
           next == path[1]
       IN IF r.status # "returned" \/ path = << >>
          THEN Crash
          ELSE IF isUnoccupied(next.x, next.y)
          THEN /\ moveEntityTo(e, next.x, next.y)
               /\ NextEntity
               /\ UNCHANGED <<stageVars, fovVars, visible, seen, action, crashed, handled, health>>
          ELSE IF Player \in SeqToSet(entitiesAt(next.x, next.y))
          THEN /\ bump(e, Player)
               /\ NextEntity
               /\ UNCHANGED <<stageVars, indexVars, fovVars, visible, seen, action, crashed,
                              handled>>
          ELSE Crash

\* new Stage(width, height, player) when generateDungeon has returned:
\* nothing is on the stage yet.
InitPlay ==
  /\ width = PlayWidth
  /\ height = PlayHeight
  /\ \E d \in Dungeons(PlayWidth, PlayHeight, playConfig) :
       map = d.tiles /\ rooms = d.rooms
  /\ entities = << >>
  /\ entitiesMap = EmptyBuckets(PlayWidth, PlayHeight)
  /\ ent = << >>
  /\ FovIdle
  /\ heuristic = "meleeCharge"
  /\ SearchIdle
  /\ PlayIdle

NextPlay == NewStage \/ Input \/ UpdatePlayer \/ UpdateEntity \/ MeleeCharge

SpecPlay == InitPlay /\ [][NextPlay]_vars

(***************************************************************************)
(* A charge across an occupied stage: the search of meleeCharge, step by   *)
(* step, from a monster to the player with other monsters standing on the  *)
(* grid, and the refresh of the player's field of view.                    *)
(***************************************************************************)
MaxBlockers == 2

\* The monster whose charge is followed.
Charger == 1

\* The sequences of up to n distinct cells of S: the cells of the monsters
\* in the order in which they were added, which is the order of the rooms
\* and not that of their positions.
CellsInOrder(S, n) ==
  UNION {{q \in [1 .. k -> S] : \A i, j \in 1 .. k : i # j => q[i] # q[j]} : k \in 0 .. n}

\* The stage after addEntity of entity 0 at cells[1], entity 1 at cells[2]
\* and so on, the cells being distinct.
PlaceEntities(w, h, cells) ==
  LET list == [i \in 1 .. Len(cells) |-> i - 1]
      at == [e \in 0 .. Len(cells) - 1 |-> [x |-> cells[e + 1][1], y |-> cells[e + 1][2]]]
  IN [entities |-> list,
      ent |-> at,
      entitiesMap |->
        [y \in 0 .. h - 1 |->
          [x \in 0 .. w - 1 |-> SelectSeq(list, LAMBDA e : at[e] = [x |-> x, y |-> y])]]]

\* meleeCharge(entity, target, stage) calls search with two new objects
\* holding the coordinates of the charger and of the player.
ChargeCall ==
  /\ spc = "idle"
  /\ origin' = Point(ent[Charger].x, ent[Charger].y, "origin")
  /\ target' = Point(ent[Player].x, ent[Player].y, "target")
  /\ frontier' = {[node |-> origin', priority |-> 0]}
  /\ costs' = Set(EmptyMap, index(origin'), 0)
  /\ visited' = Set(EmptyMap, index(origin'), Null)
  /\ spc' = "loop"
  /\ UNCHANGED <<stageVars, indexVars, fovVars, heuristic, result, playVars>>

\* stage.refreshVisibility() from the player's position, before the charge.
RefreshVisibility ==
  /\ fovLog = << >>
  /\ spc = "idle"
  /\ fovCall' = [originX |-> ent[Player].x, originY |-> ent[Player].y, radius |-> 16]
  /\ LET log == refresh(ent[Player].x, ent[Player].y, 16)
         vs == refreshVisibility([visible |-> visible, seen |-> seen], log)
     IN fovLog' = log /\ visible' = vs.visible /\ seen' = vs.seen
  /\ UNCHANGED <<stageVars, indexVars, searchVars, action, playerTurn, turn, crashed, handled, health>>

\* An open grid with the player, the charger and up to n other monsters on
\* distinct cells; nothing else has happened.
Occupied(n) ==
  /\ width = SearchWidth
  /\ height = SearchHeight
  /\ map = MapOf(SearchWidth, SearchHeight, {})
  /\ rooms = << >>
  /\ \E p \in Cells(SearchWidth, SearchHeight), c \in Cells(SearchWidth, SearchHeight) :
       /\ p # c
       /\ \E B \in CellsInOrder(Cells(SearchWidth, SearchHeight) \ {p, c}, n) :
            LET s == PlaceEntities(SearchWidth, SearchHeight, <<p, c>> \o B)
            IN entities = s.entities /\ entitiesMap = s.entitiesMap /\ ent = s.ent
  /\ FovIdle
  /\ SearchIdle
  /\ PlayIdle

InitCharge == Occupied(MaxBlockers) /\ heuristic = "meleeCharge"

NextCharge == ChargeCall \/ SearchExpand \/ SearchReturn

SpecCharge == InitCharge /\ [][NextCharge]_vars

\* The same charge with one other monster at most, and the refresh of the
\* player's field of view.
InitReads == Occupied(1) /\ heuristic = "meleeCharge"

NextReads == RefreshVisibility \/ ChargeCall \/ SearchExpand \/ SearchReturn

SpecReads == InitReads /\ [][NextReads]_vars

(***************************************************************************)
(* Observations of a refresh.                                              *)
(***************************************************************************)
Refreshed == fovLog # << >>

RevealCalls == {i \in 1 .. Len(fovLog) : fovLog[i].op = "reveal"}

Revealed == {<<fovLog[i].x, fovLog[i].y>> : i \in RevealCalls}

SquaredDistance(c, ox, oy) == (c[1] - ox) * (c[1] - ox) + (c[2] - oy) * (c[2] - oy)

\* Number of rows between c and the origin: max(|dx|, |dy|).
RowDistance(c, ox, oy) ==
  IF Abs(c[1] - ox) > Abs(c[2] - oy) THEN Abs(c[1] - ox) ELSE Abs(c[2] - oy)

\* The in-bounds cells within Euclidean distance r of (ox, oy).
Disc(ox, oy, r) == {c \in Cells(width, height) : SquaredDistance(c, ox, oy) <= r * r}

RayDirections == {d \in (-1 .. 1) \X (-1 .. 1) : d # <<0, 0>>}

\* Cell w lies between the origin and the farther cell f on one ray (row,
\* column or diagonal through the origin).
OnRayBetween(w, f, ox, oy) ==
  \E d \in RayDirections, k \in 1 .. (FovWidth + FovHeight), m \in 1 .. (FovWidth + FovHeight) :
    /\ k < m
    /\ w = <<ox + k * d[1], oy + k * d[2]>>
    /\ f = <<ox + m * d[1], oy + m * d[2]>>

(***************************************************************************)
(* Claims about the field of view (checked under SpecFOV).                 *)
(***************************************************************************)

\* C5: on a grid with no opaque cell, the cells revealed by
\* refresh(O.x, O.y, R) are exactly the in-bounds cells within Euclidean
\* distance R of O.
C5_OpenGridRevealsDisc ==
  (Refreshed /\ WallCells = {}) =>
    Revealed = Disc(fovCall.originX, fovCall.originY, fovCall.radius)

\* C6: with exactly one opaque cell, lying between the origin and a farther
\* cell on the same ray, both within the radius, refresh reveals the opaque
\* cell and does not reveal the farther cell.
C6_ShadowBehindOpaqueCell ==
  Refreshed =>
    \A w \in WallCells, f \in Cells(width, height) :
      ( /\ WallCells = {w}
        /\ OnRayBetween(w, f, fovCall.originX, fovCall.originY)
        /\ f \in Disc(fovCall.originX, fovCall.originY, fovCall.radius) )
      => (w \in Revealed /\ f \notin Revealed)

\* C6 witness: a refresh where the farther cell is in a row the scan reaches
\* and is hidden by the single opaque cell in front of it, which is revealed.
C6_Witness ==
  /\ Refreshed
  /\ \E w \in WallCells, f \in Cells(width, height) :
       /\ WallCells = {w}
       /\ OnRayBetween(w, f, fovCall.originX, fovCall.originY)
       /\ f \in Disc(fovCall.originX, fovCall.originY, fovCall.radius)
       /\ RowDistance(f, fovCall.originX, fovCall.originY) < fovCall.radius
       /\ w \in Revealed
       /\ f \notin Revealed

\* C7: every cell passed to reveal has Euclidean distance at most radius
\* from the origin, whatever the layout of opaque cells.
C7_RevealWithinRadius ==
  Refreshed =>
    \A i \in RevealCalls :
      SquaredDistance(<<fovLog[i].x, fovLog[i].y>>, fovCall.originX, fovCall.originY)
        <= fovCall.radius * fovCall.radius

\* C7 witness: on an open grid a cell in a scanned row is left out only
\* because it is farther than radius from the origin.
C7_Witness ==
  /\ Refreshed
  /\ WallCells = {}
  /\ \E c \in Cells(width, height) :
       /\ RowDistance(c, fovCall.originX, fovCall.originY) < fovCall.radius
       /\ SquaredDistance(c, fovCall.originX, fovCall.originY) > fovCall.radius * fovCall.radius
       /\ c \notin Revealed
  /\ Cardinality(Revealed) > 1

\* C8: during a refresh from an in-bounds origin neither reveal nor isOpaque
\* is called with coordinates outside 0 <= x < width, 0 <= y < height.
C8_CallsInBounds ==
  \A i \in 1 .. Len(fovLog) : InBounds(fovLog[i].x, fovLog[i].y)

\* C8 witness: a refresh from a corner of the grid with a radius reaching
\* past two edges, which still scans cells inside the grid.
C8_Witness ==
  /\ Refreshed
  /\ fovCall.originX = 0
  /\ fovCall.originY = height - 1
  /\ fovCall.radius >= 2
  /\ \E i \in 1 .. Len(fovLog) : fovLog[i].op = "isOpaque"
  /\ WallCells # {}

\* C13: during one refresh, reveal is invoked exactly once for each cell
\* determined visible, the cells on the axes and diagonals shared by
\* neighbouring octants included: no two reveal calls of the log name the
\* same cell.
C13_RevealOncePerCell ==
  \A i \in RevealCalls : \A j \in RevealCalls :
    (fovLog[i].x = fovLog[j].x /\ fovLog[i].y = fovLog[j].y) => i = j

(***************************************************************************)
(* Claims about the visible and seen sets (checked under SpecPlay).         *)
(***************************************************************************)
Constructed == entities # << >>

\* C11: after each Stage.refreshVisibility call the visible set holds
\* exactly the cells revealed during that call (a cell visible before and
\* not revealed by the call is no longer visible); the visible set changes
\* nowhere else, so it equals the cells of the latest call's reveals in
\* every state.
C11_VisibleIsLatestRefresh == visible = Revealed

\* C11 witness: the player has moved and a cell that an earlier refresh
\* revealed is not visible any more.
C11_Witness ==
  /\ handled >= 1
  /\ Refreshed
  /\ visible = Revealed
  /\ seen \ visible # {}

\* C12: no step removes a coordinate from the seen set, whatever the moves
\* of the player and of the monsters and the refreshes.
C12_SeenOnlyGrows == [][seen \subseteq seen']_vars

\* C12 witness: after two handled actions the seen set holds the cells of
\* the latest refresh and at least two cells that only earlier refreshes
\* revealed.
C12_Witness ==
  /\ handled >= 2
  /\ Revealed \subseteq seen
  /\ Cardinality(seen \ Revealed) >= 2

(***************************************************************************)
(* Reference notions for the path search.                                  *)
(***************************************************************************)
Traversable == {c \in Cells(width, height) : isTraversable(c[1], c[2])}

\* The cells one step away from cell c (4-neighbourhood inside the grid).
Adjacent(c) ==
  {n \in Cells(width, height) : Abs(n[1] - c[1]) + Abs(n[2] - c[2]) = 1}

RECURSIVE Closure(_)
\* The cells reachable from the cells of S through traversable cells.
Closure(S) ==
  LET N == S \cup {n \in Traversable : \E c \in S : n \in Adjacent(c)}
  IN IF N = S THEN S ELSE Closure(N)

ReachableFrom(c) == Closure({c})

RECURSIVE BfsLayers(_, _, _)
\* Breadth-first search: the number of steps from the cells of layer, which
\* are k steps from the start, to cell t (reachable from them).
BfsLayers(layer, seenCells, t) ==
  IF t \in layer THEN 0
  ELSE LET next == {n \in Traversable \ seenCells : \E c \in layer : n \in Adjacent(c)}
       IN 1 + BfsLayers(next, seenCells \cup next, t)

BfsDistance(o, t) == BfsLayers({o}, {o}, t)

SearchDone == spc = "done"

SameCell == index(origin) = index(target)

TargetReachable == index(target) \in ReachableFrom(index(origin))

\* path leads from the origin to the target, one step at a time, over
\* traversable cells.
IsTravelPath(path) ==
  /\ Len(path) >= 1
  /\ index(path[1]) \in {index(n) : n \in SeqToSet(adjacentNodes(origin.x, origin.y))}
  /\ \A i \in 1 .. Len(path) - 1 :
       index(path[i + 1]) \in {index(n) : n \in SeqToSet(adjacentNodes(path[i].x, path[i].y))}
  /\ \A i \in 1 .. Len(path) : isTraversable(path[i].x, path[i].y)
  /\ index(path[Len(path)]) = index(target)

(***************************************************************************)
(* Claims about the path search (checked under SpecSearch).                *)
(***************************************************************************)

\* C1: for a target that differs from origin and is reachable from it
\* through traversable cells, search returns a sequence in travel order that
\* excludes origin: its first element is adjacent to origin, each later
\* element is adjacent to the one before, every element is traversable and
\* the last element has the target's coordinates.
C1_PathInTravelOrder ==
  (SearchDone /\ ~SameCell /\ TargetReachable) =>
    (result.status = "returned" /\ IsTravelPath(result.path))

\* C1 witness: a search that returned a path of three steps or more, longer
\* than the straight distance because a wall is in the way.
C1_Witness ==
  /\ SearchDone
  /\ ~SameCell
  /\ TargetReachable
  /\ result.status = "returned"
  /\ Len(result.path) >= 3
  /\ Len(result.path) > Abs(origin.x - target.x) + Abs(origin.y - target.y)

\* C2: with the plain Manhattan heuristic, traversal cost 1 and 4-neighbour
\* adjacency, the number of steps of the returned path equals the
\* breadth-first distance, for every reachable origin/target pair.
C2_LengthIsBfsDistance ==
  (SearchDone /\ heuristic = "manhattan" /\ TargetReachable) =>
    ( /\ result.status = "returned"
      /\ Len(result.path) = BfsDistance(index(origin), index(target)) )

\* The part of C2 the search does meet: pairs of distinct coordinates.
ShortestForDistinctCells ==
  (SearchDone /\ heuristic = "manhattan" /\ TargetReachable /\ ~SameCell) =>
    ( /\ result.status = "returned"
      /\ Len(result.path) = BfsDistance(index(origin), index(target)) )

\* C3: when the target cannot be reached from origin, search resolves to a
\* defined empty result: it does not throw and returns no partial path.
C3_UnreachableGivesEmpty ==
  (SearchDone /\ ~TargetReachable) =>
    (result.status = "returned" /\ result.path = << >>)

\* C4: search returns an empty sequence whenever target has the x and y of
\* origin, also when the two are distinct objects of equal value.
C4_SameCellGivesEmpty ==
  (SearchDone /\ SameCell) =>
    (result.status = "returned" /\ result.path = << >>)

(***************************************************************************)
(* Claims about the occupancy index (checked under SpecStage).             *)
(***************************************************************************)
OnStage(e) == e \in SeqToSet(entities)

Bucket(c) == entitiesMap[c[2]][c[1]]

CellOf(e) == <<ent[e].x, ent[e].y>>

\* e is held by the index at its own coordinate.
Held(e) == Count(Bucket(CellOf(e)), e) = 1

\* What C9 says of a step moveEntityTo(e, c[1], c[2]); leavesOld: whether
\* the old bucket must have lost e.
MovedTo(e, c, leavesOld) ==
  /\ leavesOld => Count(entitiesMap'[ent[e].y][ent[e].x], e) = 0
  /\ Count(entitiesMap'[c[2]][c[1]], e) = 1
  /\ ent'[e] = [x |-> c[1], y |-> c[2]]
  /\ \A d \in Cells(width, height) \ {c, CellOf(e)} :
       entitiesMap'[d[2]][d[1]] = entitiesMap[d[2]][d[1]]

\* C9 as stated: after moveEntityTo(e, x, y) for an entity held at its old
\* coordinate, the old bucket no longer contains e, the bucket at (x, y)
\* contains e exactly once, e.x and e.y equal (x, y), and every other bucket
\* is unchanged.
C9_MoveLeavesOldBucket ==
  [][\A e \in Entities, c \in Cells(width, height) :
       (Held(e) /\ moveEntityTo(e, c[1], c[2])) => MovedTo(e, c, TRUE)]_vars

\* C9 amended: the same, the old bucket having lost e whenever (x, y)
\* differs from the old coordinate.
C9_MoveBetweenBuckets ==
  [][\A e \in Entities, c \in Cells(width, height) :
       (Held(e) /\ moveEntityTo(e, c[1], c[2])) => MovedTo(e, c, c # CellOf(e))]_vars

\* C9 witness: two entities share a bucket in the order opposite to the one
\* they were added in, which only a moveEntityTo into that bucket produces.
C9_Witness ==
  \E c \in Cells(width, height) :
    /\ Len(Bucket(c)) = 2
    /\ Len(entities) = 2
    /\ Bucket(c)[1] = entities[2]
    /\ Bucket(c)[2] = entities[1]

\* C10: every entity of the entities list is in exactly one bucket, once,
\* the bucket at its own (x, y), and no bucket holds an entity that is not
\* in the list.
C10_IndexMatchesEntities ==
  \A e \in Entities, c \in Cells(width, height) :
    Count(Bucket(c), e) = (IF OnStage(e) /\ c = CellOf(e) THEN 1 ELSE 0)

\* C10 witness: an entity that was added away from (0, 0) and removed again
\* is off the stage while another entity is on it.
C10_Witness ==
  /\ \E e \in Entities : ~OnStage(e) /\ CellOf(e) # <<0, 0>>
  /\ \E e \in Entities : OnStage(e) /\ CellOf(e) # <<0, 0>>

(***************************************************************************)
(* Termination of the search loop (checked under SpecSearchLive).          *)
(***************************************************************************)
LiveWidth == 2

\* A grid of two rows with one wall at most, on which search is about to be
\* called with the callbacks of meleeCharge.
InitSearchLive ==
  /\ width = LiveWidth
  /\ height = 2
  /\ map \in {MapOf(LiveWidth, 2, walls) : walls \in SubsetsUpTo(Cells(LiveWidth, 2), 1)}
  /\ rooms = << >>
  /\ NoEntities(LiveWidth, 2)
  /\ FovIdle
  /\ heuristic = "meleeCharge"
  /\ SearchIdle
  /\ PlayIdle

\* search is straight-line code in one call frame: once it is called, a pass
\* of the loop that can be taken is taken, and so is the return.
SpecSearchLive ==
  InitSearchLive /\ [][NextSearch]_vars /\ WF_vars(NextSearch)

RECURSIVE SumOver(_, _)
\* The sum of f[c] over the cells c of S.
SumOver(f, S) ==
  IF S = {} THEN 0
  ELSE LET c == CHOOSE d \in S : TRUE IN f[c] + SumOver(f, S \ {c})

\* More than any cost the search can record: five per cell of the grid.
CostCap == 5 * width * height + 1

\* The recorded cost of every cell (CostCap for a cell without one), added
\* up and weighted above the four entries one pass can push, plus the
\* number of entries in the frontier.
Rank ==
  5 * SumOver([c \in Cells(width, height) |->
                 IF Has(costs, c) THEN costs[c] ELSE CostCap], Cells(width, height))
  + Cardinality(frontier)

\* C15: on a finite grid with the bounds-filtered 4-neighbour adjacency and
\* strictly positive costs the loop of search always terminates, whether or
\* not the target is reachable: a pass pushes a coordinate only when its
\* recorded cost falls, so a natural number (Rank) falls with every pass,
\* and every search that is called reaches its return, with the frontier
\* empty or the target polled.
C15_SearchTerminates ==
  /\ [][(spc = "loop" /\ spc' = "loop") => (Rank' >= 0 /\ Rank' < Rank)]_vars
  /\ (spc = "loop") ~> (spc = "done" /\ (frontier = {} \/ Has(costs, index(target))))

\* C15 witness: a search has ended on an empty frontier after three cells
\* were recorded, the target being out of reach.
C15_Witness ==
  /\ SearchDone
  /\ frontier = {}
  /\ ~TargetReachable
  /\ Cardinality(DOMAIN costs) >= 3

(***************************************************************************)
(* Claims about a charge across an occupied stage (checked under           *)
(* SpecReads and SpecCharge).                                              *)
(***************************************************************************)
\* C14: a search and a refresh only read the grid and the occupancy index:
\* no step of either changes a tile, a bucket, the entities list or an
\* entity's position, and a refresh changes nothing of the search either,
\* only the visible and seen sets (and the record of its own calls).
C14_SearchAndRefreshOnlyRead ==
  [][/\ UNCHANGED <<width, height, map, entities, entitiesMap, ent>>
     /\ (fovLog' # fovLog => UNCHANGED <<searchVars, action, playerTurn, turn>>)
     /\ (spc' # spc \/ frontier' # frontier => UNCHANGED <<visible, seen, fovVars>>)]_vars

\* C14 witness: on a stage with a monster beside the charger and the player,
\* the search has returned a path and the refresh has revealed cells.
C14_Witness ==
  /\ SearchDone
  /\ result.status = "returned"
  /\ Len(entities) >= 3
  /\ fovLog # << >>
  /\ visible # {}

\* The cost of stepping onto cell c as the claim states it: 5 when a
\* blocking entity of the stage stands on c, 1 otherwise.
OccupantCost(c) ==
  IF \E e \in SeqToSet(entities) : isBlocking(e) /\ ent[e] = [x |-> c[1], y |-> c[2]]
  THEN 5 ELSE 1

RECURSIVE CostWave(_, _, _, _)
\* waves[k + 1] holds the cells that a path from the start reaches at a total
\* cost of k or less, open the traversable cells and dear those among them
\* that cost 5; the result is the least total cost of a path to t (-1 if
\* there is none).
CostWave(waves, t, open, dear) ==
  LET k == Len(waves)
      reach(c) == LET cost == IF c \in dear THEN 5 ELSE 1
                  IN /\ k >= cost
                     /\ \E n \in waves[k - cost + 1] :
                          Abs(n[1] - c[1]) + Abs(n[2] - c[2]) = 1
      next == {c : c \in waves[k] \cup {d \in open : reach(d)}}
  IN IF t \in waves[k] THEN k - 1
     ELSE IF k > CostCap THEN -1
     ELSE CostWave(Append(waves, next), t, open, dear)

\* The least total cost of a path from cell o to cell t.
MinCost(o, t) ==
  CostWave(<<{o}>>, t, {c : c \in Traversable},
           {c : c \in {d \in Traversable : OccupantCost(d) = 5}})

\* The total traversal cost of path: the cost of every cell stepped onto.
PathCost(path) ==
  SumOver([i \in 1 .. Len(path) |-> OccupantCost(index(path[i]))], 1 .. Len(path))

\* Some cell of path before its last holds a blocking entity.
ThroughOccupant(path) ==
  \E i \in 1 .. Len(path) - 1 : OccupantCost(index(path[i])) = 5

\* C16: with cost 5 for a cell holding a blocking occupant and 1 for any
\* other traversable cell, the path search returns from origin to target has
\* the least total traversal cost of all paths: it goes round occupied cells
\* when the detour is cheaper and goes through them when no route avoids
\* them.
C16_PathHasLeastCost ==
  SearchDone =>
    /\ result.status = "returned"
    /\ IsTravelPath(result.path)
    /\ PathCost(result.path) = MinCost(index(origin), index(target))

\* C16 witness: the returned path is longer than the straight distance and
\* steps onto no occupied cell before the target, a monster standing on the
\* straight way.
C16_Witness ==
  /\ SearchDone
  /\ result.status = "returned"
  /\ Len(entities) >= 3
  /\ Len(result.path) > Abs(origin.x - target.x) + Abs(origin.y - target.y)
  /\ ~ThroughOccupant(result.path)
  /\ PathCost(result.path) = MinCost(index(origin), index(target))

\* C17: with the heuristic of meleeCharge, |dx| + 1.01 * |dy|, and costs of
\* at least 1 per step, the total cost of the returned path is never more
\* than 1.01 times the least total cost.
C17_CostWithinOnePercent ==
  (SearchDone /\ heuristic = "meleeCharge") =>
    /\ result.status = "returned"
    /\ 100 * PathCost(result.path) <= 101 * MinCost(index(origin), index(target))

\* C17 witness: a charge whose heuristic weighs a vertical distance, with
\* occupied cells on the grid, has returned a path within the bound.
C17_Witness ==
  /\ SearchDone
  /\ heuristic = "meleeCharge"
  /\ result.status = "returned"
  /\ Abs(origin.y - target.y) >= 1
  /\ Len(entities) >= 4
  /\ 100 * PathCost(result.path) <= 101 * MinCost(index(origin), index(target))

(***************************************************************************)
(* The worked example of a detour round a wall (checked under SpecDetour). *)
(***************************************************************************)
\* The wall column x = 2, y = 0 .. 3 of the 5x5 grid; (2, 4) is open.
DetourWalls == {<<2, y>> : y \in 0 .. 3}

\* search is called from a cell of the left column to a cell of the right
\* column, with uniform cost 1 and the Manhattan heuristic.
DetourCall ==
  /\ spc = "idle"
  /\ \E oy \in 0 .. height - 1, ty \in 0 .. height - 1 :
       /\ origin' = Point(0, oy, "origin")
       /\ target' = Point(width - 1, ty, "target")
       /\ frontier' = {[node |-> origin', priority |-> 0]}
       /\ costs' = Set(EmptyMap, index(origin'), 0)
       /\ visited' = Set(EmptyMap, index(origin'), Null)
  /\ spc' = "loop"
  /\ UNCHANGED <<stageVars, indexVars, fovVars, heuristic, result, playVars>>

InitDetour ==
  /\ width = 5
  /\ height = 5
  /\ map = MapOf(5, 5, DetourWalls)
  /\ rooms = << >>
  /\ NoEntities(5, 5)
  /\ FovIdle
  /\ heuristic = "manhattan"
  /\ SearchIdle
  /\ PlayIdle

NextDetour == DetourCall \/ SearchExpand \/ SearchReturn

SpecDetour == InitDetour /\ [][NextDetour]_vars

\* The search of the example: from (0, 2) to (4, 2).
DetourExample ==
  /\ SearchDone
  /\ index(origin) = <<0, 2>>
  /\ index(target) = <<4, 2>>

\* path steps onto the only open cell of the wall column.
ThroughGap(path) == \E i \in 1 .. Len(path) : index(path[i]) = <<2, 4>>

\* C18 as stated: on the 5x5 grid whose only non-traversable cells are the
\* wall column x = 2, y = 0 .. 3, search from (0, 2) to (4, 2) with uniform
\* cost 1 and the Manhattan heuristic returns a path of length 6 that
\* detours through y = 4.
C18_DetourOfLengthSix ==
  DetourExample =>
    /\ result.status = "returned"
    /\ Len(result.path) = 6
    /\ ThroughGap(result.path)

\* C18 amended: the path search returns in the example is a travel path of
\* length 8 through (2, 4), the shortest there is: two steps down to y = 4,
\* four across and two back up.
C18_DetourOfLengthEight ==
  DetourExample =>
    /\ result.status = "returned"
    /\ IsTravelPath(result.path)
    /\ Len(result.path) = 8
    /\ Len(result.path) = MinCost(<<0, 2>>, <<4, 2>>)
    /\ ThroughGap(result.path)

\* C18 witness: the search of the example has returned a path through the
\* gap at (2, 4).
C18_Witness ==
  /\ DetourExample
  /\ result.status = "returned"
  /\ ThroughGap(result.path)
  /\ Len(result.path) > 4

(***************************************************************************)
(* The worked example of a refresh of radius 1 (checked under SpecCross).  *)
(***************************************************************************)
\* A fully open 5x5 grid on which refresh is about to be called, from any
\* cell and with a radius of 0, 1 or 2.
InitCross ==
  /\ width = 5
  /\ height = 5
  /\ map = MapOf(5, 5, {})
  /\ rooms = << >>
  /\ NoEntities(5, 5)
  /\ SearchIdle
  /\ heuristic = "manhattan"
  /\ fovCall \in [originX : 0 .. 4, originY : 0 .. 4, radius : 0 .. 2]
  /\ fovLog = << >>
  /\ PlayIdle

NextCross == FovRefresh

SpecCross == InitCross /\ [][NextCross]_vars

\* C19: on a fully open 5x5 grid, refresh(2, 2, 1) reveals exactly the five
\* cells (2,2), (1,2), (3,2), (2,1) and (2,3): the origin and its four
\* orthogonal neighbours, and no diagonal neighbour.
C19_RadiusOneRevealsCross ==
  (Refreshed /\ fovCall = [originX |-> 2, originY |-> 2, radius |-> 1]) =>
    Revealed = {<<2, 2>>, <<1, 2>>, <<3, 2>>, <<2, 1>>, <<2, 3>>}

(***************************************************************************)
(* Occupancy during play (checked under SpecPlay).                         *)
(***************************************************************************)
\* The blocking entities of the stage whose position is cell c.
BlockersAt(c) ==
  {e \in SeqToSet(entities) : isBlocking(e) /\ ent[e] = [x |-> c[1], y |-> c[2]]}

\* The blocking entities held by the bucket of cell c.
BlockersInBucket(c) ==
  {i \in 1 .. Len(entitiesAt(c[1], c[2])) : isBlocking(entitiesAt(c[1], c[2])[i])}

\* C20: at every moment of play at most one blocking entity occupies any
\* tile: the initial placement is on distinct tiles and no move of the
\* player (handleAction), drunkenWalk or meleeCharge puts an entity on a
\* tile that holds another blocking entity.
C20_OneBlockerPerTile ==
  \A c \in Cells(width, height) :
    Cardinality(BlockersAt(c)) <= 1 /\ Cardinality(BlockersInBucket(c)) <= 1

\* C20 witness: after a handled action and the monsters' turns, a monster
\* stands next to the player, each on a tile of its own.
C20_Witness ==
  /\ Constructed
  /\ handled >= 1
  /\ turn = 0
  /\ \E m \in SeqToSet(entities) \ {Player} :
       Abs(ent[m].x - ent[Player].x) + Abs(ent[m].y - ent[Player].y) = 1
  /\ C20_OneBlockerPerTile

(***************************************************************************)
(* The player on the generated dungeon (checked under SpecPlay).           *)
(***************************************************************************)
\* The tile the pending action leads the player to.
Aimed == [x |-> ent[Player].x + action.x, y |-> ent[Player].y + action.y]

\* The player stands inside the grid, away from its edge, on a tile that
\* does not block.
PlayerOnFloor ==
  /\ ent[Player].x >= 1 /\ ent[Player].x <= width - 2
  /\ ent[Player].y >= 1 /\ ent[Player].y <= height - 2
  /\ ~map[ent[Player].y][ent[Player].x].blocking

\* C21: after any sequence of actions handled by handleAction on a generated
\* dungeon the player is inside the grid on a non-blocking tile; the outermost
\* tiles are walls, so the tile an action leads to is always a tile of the
\* grid; and an action toward a blocking tile leaves the position unchanged.
C21_PlayerStaysOnFloor ==
  /\ [](Constructed => PlayerOnFloor)
  /\ []((Constructed /\ action # NoAction) => InBounds(Aimed.x, Aimed.y))
  /\ [][(Constructed /\ handled' # handled /\ map[Aimed.y][Aimed.x].blocking)
          => ent'[Player] = ent[Player]]_vars

\* C21 witness: two actions have been handled, the player stands on a floor
\* tile and the pending action leads to a wall tile of the grid.
C21_Witness ==
  /\ Constructed
  /\ handled >= 2
  /\ action # NoAction
  /\ InBounds(Aimed.x, Aimed.y)
  /\ map[Aimed.y][Aimed.x].blocking
  /\ PlayerOnFloor

(***************************************************************************)
(* The bump of a charge (checked under SpecPlay).                          *)
(***************************************************************************)
\* A monster is about to run the search of its charge.
Charging == spc = "loop" /\ turn >= 1 /\ ~crashed

\* The paths the search of the charge under way can return.
ChargePaths ==
  {r.path : r \in {q \in SearchLoop([frontier |-> frontier, costs |-> costs,
                                      visited |-> visited]) :
                     q.status = "returned" /\ q.path # << >>}}

\* C22: in meleeCharge a monster bumps only its target: whenever the first
\* step of the computed path holds a blocking entity, the entity is the
\* target (the player), so bump is never called with another monster or
\* with no entity.
C22_BumpsOnlyTarget ==
  Charging =>
    \A path \in ChargePaths :
      ~isUnoccupied(path[1].x, path[1].y) =>
        Player \in SeqToSet(entitiesAt(path[1].x, path[1].y))

(***************************************************************************)
(* The alternation of turns (checked under SpecPlay).                      *)
(***************************************************************************)
\* The monsters of the stage whose position changes in the step.
Movers == {m \in SeqToSet(entities) \ {Player} : ent'[m] # ent[m]}

\* C23: control alternates between the player and the monsters.  An action
\* is consumed only at the start of an update, when it is the player's turn;
\* then every other entity takes its turn exactly once, in the order of the
\* entities list, before the next action is consumed; a monster acts only
\* in its turn, so none acts in an update that consumed no action; the
\* update that consumed an action runs all the turns (it does not end
\* before the last entity's turn) and playerTurn is true when it returns.
C23_TurnsAlternate ==
  /\ [][handled' # handled =>
          (turn = 0 /\ playerTurn /\ turn' = 1 /\ ~playerTurn' /\ Movers = {})]_vars
  /\ [][(turn >= 1 /\ turn' # turn) =>
          turn' = IF turn = Len(entities) THEN 0 ELSE turn + 1]_vars
  /\ [][Movers # {} => (turn >= 1 /\ Movers = {entities[turn]})]_vars
  /\ [](turn = 0 <=> playerTurn)
  /\ [](turn >= 1 => ~crashed)

(***************************************************************************)
(* The game loop of part 1: a player on a bare grid (checked under         *)
(* SpecPart1).                                                             *)
(***************************************************************************)
Part1Width == 5
Part1Height == 5

\* Mutant of Clamp: the upper edge is not enforced.
Clamp_NoUpper(hi, v) == Max(0, v)

\* Math.min(hi, Math.max(0, v))
Clamp(hi, v) == Min(hi, Max(0, v))

\* input(key), a keydown event between two frames.
Part1Input ==
  /\ \E key \in DOMAIN KeyAction : action' = KeyAction[key]
  /\ UNCHANGED <<stageVars, indexVars, fovVars, searchVars, visible, seen,
                 playerTurn, turn, crashed, handled, health>>

\* update() of a frame with a pending action; without one update changes
\* nothing.
Part1Update ==
  /\ action # NoAction
  /\ ent' = [ent EXCEPT ![Player] = [x |-> Clamp(width - 1, ent[Player].x + action.x),
                                     y |-> Clamp(height - 1, ent[Player].y + action.y)]]
  /\ action' = NoAction
  /\ UNCHANGED <<stageVars, entities, entitiesMap, fovVars, searchVars, visible, seen,
                 playerTurn, turn, crashed, handled, health>>

\* The player in the middle of the grid, no key pressed.
InitPart1 ==
  /\ width = Part1Width
  /\ height = Part1Height
  /\ map = MapOf(Part1Width, Part1Height, {})
  /\ rooms = << >>
  /\ entities = << >>
  /\ entitiesMap = EmptyBuckets(Part1Width, Part1Height)
  /\ ent = [e \in {Player} |-> [x |-> Part1Width \div 2, y |-> Part1Height \div 2]]
  /\ FovIdle
  /\ heuristic = "manhattan"
  /\ SearchIdle
  /\ PlayIdle

NextPart1 == Part1Input \/ Part1Update

SpecPart1 == InitPart1 /\ [][NextPart1]_vars

\* C24: in the game loop of part 1 the player stays on the grid: after any
\* sequence of arrow keys and updates 0 <= player.x <= width - 1 and
\* 0 <= player.y <= height - 1, and an action that would cross an edge
\* leaves that coordinate at the edge.
C24_PlayerClampedToGrid ==
  /\ [](/\ 0 <= ent[Player].x /\ ent[Player].x <= width - 1
        /\ 0 <= ent[Player].y /\ ent[Player].y <= height - 1)
  /\ [][(action' = NoAction /\ action # NoAction) =>
          /\ (~InBounds(ent[Player].x + action.x, 0) => ent'[Player].x = ent[Player].x)
          /\ (~InBounds(0, ent[Player].y + action.y) => ent'[Player].y = ent[Player].y)
          /\ (InBounds(ent[Player].x + action.x, ent[Player].y + action.y) =>
                ent'[Player] = [x |-> ent[Player].x + action.x,
                                y |-> ent[Player].y + action.y])]_vars

\* C24 witness: the player stands in the corner of the right and the lower
\* edge and the pending action leads across the right edge.
C24_Witness ==
  /\ ent[Player] = [x |-> width - 1, y |-> height - 1]
  /\ action = KeyAction.ArrowRight


(***************************************************************************)
(* A fight: the game loop of part 6 on generated dungeons small enough for *)
(* the player and the monster of the second room to meet and exchange      *)
(* blows, both with a Fightable.                                           *)
(***************************************************************************)
FightWidth == 11
FightHeight == 6
FightActions == 6

\* The floor of the stage: the cells that are not blocking.
Floor == {c \in Cells(width, height) : ~map[c[2]][c[1]].blocking}

\* The configuration generateDungeon is called with: rooms of one size.  No
\* more than two rooms of RoomSize fit on a FightWidth x FightHeight grid
\* without intersecting, so two draws yield every dungeon that the thirty
\* draws of defaultConfig yield.
fightConfig == [maxRoomCount |-> 2, minRoomSize |-> RoomSize, maxRoomSize |-> RoomSize]

\* new Stage(width, height, player) when generateDungeon has returned:
\* nothing is on the stage yet.
InitFight ==
  /\ width = FightWidth
  /\ height = FightHeight
  /\ \E d \in Dungeons(FightWidth, FightHeight, fightConfig) :
       map = d.tiles /\ rooms = d.rooms
  /\ entities = << >>
  /\ entitiesMap = EmptyBuckets(FightWidth, FightHeight)
  /\ ent = << >>
  /\ FovIdle
  /\ heuristic = "meleeCharge"
  /\ SearchIdle
  /\ PlayIdle

FightInput == InputUpTo(FightActions)

FightUpdatePlayer == UpdatePlayerUpTo(FightActions)

NextFight == NewStage \/ FightInput \/ FightUpdatePlayer \/ UpdateEntity \/ MeleeCharge

SpecFight == InitFight /\ [][NextFight]_vars

\* The entities whose health has reached zero.
Dead == {e \in DOMAIN health : health[e] <= 0}

\* C25: an entity whose health has reached zero is dead: it is no longer in
\* stage.entities nor in the bucket of any cell, so it takes no turn and
\* blocks no tile, and from then on it is not attacked again (its health
\* does not change) and does not move.
C25_DeadEntitiesLeaveStage ==
  /\ [](\A e \in Dead :
          /\ e \notin SeqToSet(entities)
          /\ \A c \in Cells(width, height) : e \notin SeqToSet(entitiesAt(c[1], c[2])))
  /\ [][\A e \in Dead : health'[e] = health[e] /\ ent'[e] = ent[e]]_vars


(***************************************************************************)
(* The maps of a search, relaxation by relaxation                          *)
(***************************************************************************)
\* The states of frontier, costs and visited during the for loop of search
\* over candidates: before the loop and after each of its passes, in order.
RelaxSteps(st, current, candidates) ==
  LET F[i \in 0 .. Len(candidates)] ==
        IF i = 0 THEN st ELSE Relax(F[i - 1], current, candidates[i])
  IN [i \in 1 .. Len(candidates) + 1 |-> F[i - 1]]

\* Every run of relaxations the search can make next: the for loop of each
\* entry that frontier.poll() may return, when it is not the target.
NextRelaxations ==
  IF spc # "loop" THEN {}
  ELSE {RelaxSteps([frontier |-> frontier \ {e}, costs |-> costs, visited |-> visited],
                   e.node, adjacentNodes(e.node.x, e.node.y)) :
          e \in {p \in Pollable(frontier) : ~AtTarget(p.node)}}

RECURSIVE Chain(_, _, _)
\* The coordinates met when following the predecessors of paths from
\* coordinate c on, up to the origin object; <<>> when the origin object is
\* not reached within n steps.
Chain(paths, c, n) ==
  IF ~Has(paths, c) \/ n = 0 THEN << >>
  ELSE IF SameObject(paths[c], origin) THEN <<c, index(origin)>>
  ELSE IF paths[c].ref \in {"null", "undefined"} THEN << >>
  ELSE LET rest == Chain(paths, index(paths[c]), n - 1)
       IN IF rest = << >> THEN << >> ELSE <<c>> \o rest

\* The maps st.costs and st.visited are consistent.
MapsConsistent(st) ==
  /\ Has(st.costs, index(origin)) /\ st.costs[index(origin)] = 0
  /\ Has(st.visited, index(origin)) /\ st.visited[index(origin)] = Null
  /\ \A c \in DOMAIN st.costs \ {index(origin)} :
       /\ Has(st.visited, c)
       /\ Has(st.costs, index(st.visited[c]))
       /\ st.costs[c] >= st.costs[index(st.visited[c])] + traversalCost(c[1], c[2])
       /\ LET chain == Chain(st.visited, c, Cardinality(DOMAIN st.visited))
          IN /\ chain # << >>
             /\ \A i, j \in 1 .. Len(chain) : i # j => chain[i] # chain[j]

\* No coordinate recorded in before is forgotten or dearer in after.
CostsNotIncreased(before, after) ==
  \A c \in DOMAIN before.costs :
    Has(after.costs, c) /\ after.costs[c] <= before.costs[c]

\* C26: during a search the maps are consistent after every relaxation
\* (origin at cost 0 with the null predecessor; every other recorded
\* coordinate has a recorded predecessor whose cost plus the traversal cost
\* of the coordinate does not exceed its own cost, and its predecessors lead
\* to the origin object without a repeated coordinate), no relaxation
\* raises a recorded cost, and the loop of tracePath ends when the
\* coordinate of the target was recorded.
C26_MapsStayConsistent ==
  /\ spc \in {"loop", "done"} =>
       MapsConsistent([frontier |-> frontier, costs |-> costs, visited |-> visited])
  /\ \A run \in NextRelaxations :
       /\ \A i \in 1 .. Len(run) : MapsConsistent(run[i])
       /\ \A i \in 1 .. Len(run) - 1 : CostsNotIncreased(run[i], run[i + 1])
  /\ (spc = "done" /\ Has(visited, index(target))) => result.status # "diverges"

\* A search is about to lower the recorded cost of a coordinate that has
\* a predecessor: a relaxation that strictly improves on a recorded cost.
C26_Witness ==
  /\ spc = "loop"
  /\ \E run \in NextRelaxations : \E i \in 1 .. Len(run) - 1 :
       \E c \in DOMAIN run[i].costs :
         /\ run[i + 1].costs[c] < run[i].costs[c]
         /\ run[i + 1].visited[c] # run[i].visited[c]


(***************************************************************************)
(* What the player sees when update returns                                *)
(***************************************************************************)
\* update has returned and no key was pressed since.
UpdateReturned == Constructed /\ turn = 0 /\ action = NoAction

\* The cells that refresh(x, y, 16) reveals on the map as it is.
FovFrom(x, y) ==
  LET log == refresh(x, y, 16)
  IN {<<log[i].x, log[i].y>> : i \in {j \in 1 .. Len(log) : log[j].op = "reveal"}}

\* handleAction(action) neither finds the tile free nor moves: the tile is
\* blocking or an entity stands on it.
BlockedOrBump ==
  /\ handled' # handled
  /\ \/ ~canMoveTo(Aimed.x, Aimed.y)
     \/ ~isUnoccupied(Aimed.x, Aimed.y)

\* C27: whenever update has returned, visible is the set of cells that the
\* field-of-view computation reveals from the position the player now has,
\* with radius 16; an action that ends in a bump or in front of a blocking
\* tile changes neither the player's position nor visible; a step in which
\* a monster moves leaves visible as it is.
C27_VisibleIsFovOfPlayer ==
  /\ [](UpdateReturned => visible = FovFrom(ent[Player].x, ent[Player].y))
  /\ [][BlockedOrBump => (ent'[Player] = ent[Player] /\ visible' = visible)]_vars
  /\ [][Movers # {} => visible' = visible]_vars

\* update has returned for the second time at least, the player has walked
\* to a place from which other cells are seen than those seen before, and
\* a monster stands next to the player.
C27_Witness ==
  /\ UpdateReturned
  /\ handled >= 2
  /\ visible # seen
  /\ \E e \in SeqToSet(entities) \ {Player} :
       Abs(ent[e].x - ent[Player].x) + Abs(ent[e].y - ent[Player].y) = 1


(***************************************************************************)
(* Key presses and frames                                                  *)
(***************************************************************************)
\* Everything but the pending action and the count of handled actions.
worldVars ==
  <<stageVars, indexVars, fovVars, searchVars, visible, seen, playerTurn, turn, crashed,
    health>>

\* C28: a player action is applied at most once.  The step of update that
\* handles an action finds one pending, resets it to null, and puts the
\* player where that action (the last key pressed) points or leaves the
\* player in place; the player moves in no other step; a key press changes
\* the pending action only; and when update has returned and no key has
\* been pressed, nothing happens until a key is pressed.
C28_ActionAppliedOnce ==
  /\ [][handled' # handled =>
          /\ action # NoAction
          /\ action' = NoAction
          /\ handled' = handled + 1
          /\ ent'[Player] \in {ent[Player], Aimed}]_vars
  /\ [][(Constructed /\ ent'[Player] # ent[Player]) => handled' # handled]_vars
  /\ [][(Constructed /\ action' # action /\ action' # NoAction) =>
          (handled' = handled /\ UNCHANGED worldVars)]_vars
  /\ [][UpdateReturned => (handled' = handled /\ UNCHANGED worldVars)]_vars

\* A key is pending after two actions were handled and the player has
\* walked: what is seen is more than what is visible.
C28_Witness ==
  /\ Constructed
  /\ turn = 0
  /\ handled >= 2
  /\ action = KeyAction.ArrowLeft
  /\ visible # seen
  /\ ~crashed


(***************************************************************************)
(* Dungeons of two rooms that lie side by side, level or shifted against   *)
(* each other, and the stage built on them.                                *)
(***************************************************************************)
DungeonWidth == 12
DungeonHeight == 8

\* The number of candidate rooms drawn.  No more than two rooms of RoomSize
\* fit on a DungeonWidth x DungeonHeight grid without intersecting, so two
\* draws yield every dungeon that the thirty draws of defaultConfig yield.
MaxRooms == 2

dungeonConfig == [maxRoomCount |-> MaxRooms, minRoomSize |-> RoomSize, maxRoomSize |-> RoomSize]

InitDungeon ==
  /\ width = DungeonWidth
  /\ height = DungeonHeight
  /\ \E d \in Dungeons(DungeonWidth, DungeonHeight, dungeonConfig) :
       map = d.tiles /\ rooms = d.rooms
  /\ entities = << >>
  /\ entitiesMap = EmptyBuckets(DungeonWidth, DungeonHeight)
  /\ ent = << >>
  /\ FovIdle
  /\ heuristic = "meleeCharge"
  /\ SearchIdle
  /\ PlayIdle

NextDungeon == NewStage

SpecDungeon == InitDungeon /\ [][NextDungeon]_vars

\* The centres of the rooms of the dungeon.
Centres == {<<center(rooms[i]).x, center(rooms[i]).y>> : i \in 1 .. Len(rooms)}

RECURSIVE FloorAround(_)
\* The cells that can be walked to from the cells of S over tiles that are
\* not blocking, one orthogonal step at a time.
FloorAround(S) ==
  LET N == S \cup {n \in Floor : \E c \in S : Abs(n[1] - c[1]) + Abs(n[2] - c[2]) = 1}
  IN IF N = S THEN S ELSE FloorAround(N)

\* C29: in a dungeon that generateDungeon returned, the centre of every
\* room is a floor tile and every room centre can be walked to from the
\* centre of the first room over floor tiles; on the stage built on it,
\* every entity stands on a cell that can be walked to from the player.
C29_RoomCentresConnected ==
  /\ rooms # << >> =>
       /\ Centres \subseteq Floor
       /\ Centres \subseteq FloorAround({<<center(rooms[1]).x, center(rooms[1]).y>>})
  /\ Constructed =>
       {<<ent[e].x, ent[e].y>> : e \in SeqToSet(entities)}
         \subseteq Floor \cap FloorAround({<<ent[Player].x, ent[Player].y>>})

\* A dungeon of two rooms whose centres share neither a row nor a column:
\* the passage between them has a corner.
C29_Witness ==
  /\ Len(rooms) = 2
  /\ center(rooms[1]).x # center(rooms[2]).x
  /\ center(rooms[1]).y # center(rooms[2]).y


\* C30: in every state of the stage each visible cell is a seen cell.
C30_VisibleSubsetOfSeen == visible \subseteq seen

\* The player has walked: some cell that was seen is not visible any more,
\* and some cell is visible.
C30_Witness ==
  /\ Constructed
  /\ handled >= 1
  /\ visible # {}
  /\ seen \ visible # {}

====
